---- MODULE Spec2Model ----
(***************************************************************************)
(* Model of art/classifiers/ensemble.py: EnsembleClassifier, the weighted  *)
(* ensemble over already trained classifiers.  One action per method; the  *)
(* constructor is an action too.  Arrays are sequences of exact rationals. *)
(***************************************************************************)
EXTENDS Integers, Sequences, FiniteSets, TLC

VARIABLES
    self,     \* the EnsembleClassifier instance, or NoAdapter
    objs,     \* the objects of the list passed as `classifiers` (shared by reference)
    ctor,     \* the arguments the constructor was called with
    ret,      \* the outcome of the last call: operation, arguments, exception, value
    trace     \* calls on members and writes to self made by the last call, in order

vars == <<self, objs, ctor, ret, trace>>

(* -------- bounds of the model -------- *)
MaxMembers == 2
MaxWeights == 3

(* -------- exact rationals <<numerator, denominator>>, denominator > 0 -------- *)
RECURSIVE GCD(_, _)
GCD(a, b) == IF b = 0 THEN a ELSE GCD(b, a % b)

Abs(a) == IF a < 0 THEN -a ELSE a

Rat(n, d) ==
    LET g == GCD(Abs(n), d)
    IN  IF g = 0 THEN <<0, 1>> ELSE <<n \div g, d \div g>>

RMul(a, b) == Rat(a[1] * b[1], a[2] * b[2])
RAdd(a, b) == Rat(a[1] * b[2] + b[1] * a[2], a[2] * b[2])
RSub(a, b) == Rat(a[1] * b[2] - b[1] * a[2], a[2] * b[2])
RDiv(a, b) == Rat(a[1] * b[2], a[2] * b[1])
RLess(a, b) == a[1] * b[2] < b[1] * a[2]
One == <<1, 1>>
Zero == <<0, 1>>

(* -------- numpy on arrays (sequences of rationals) -------- *)
\* scalar * array
Scale(w, arr) == [k \in 1..Len(arr) |-> RMul(w, arr[k])]

RECURSIVE SumRows(_, _)
\* np.sum(stack, axis=0): elementwise sum of the rows 1..n of the stack
SumRows(stack, n) ==
    IF n = 1 THEN stack[1]
    ELSE LET rest == SumRows(stack, n - 1)
         IN  [k \in 1..Len(rest) |-> RAdd(rest[k], stack[n][k])]

\* np.clip(z, lo, hi), elementwise
Clip(z, lo, hi) ==
    [k \in 1..Len(z) |-> IF RLess(z[k], lo) THEN lo ELSE IF RLess(hi, z[k]) THEN hi ELSE z[k]]

\* np.log, elementwise; the logarithm is kept symbolic
Log(z) == [k \in 1..Len(z) |-> [log |-> z[k]]]

\* np.ones(n), the division by n left out
OnesOver_noDivision(n) == [i \in 1..n |-> One]

\* np.ones(n) / n
OnesOver(n) == [i \in 1..n |-> RDiv(One, <<n, 1>>)]

(* -------- values of the arguments -------- *)
\* an optional argument: Python's None, or a list
None == [isNone |-> TRUE, list |-> <<>>]
Some(l) == [isNone |-> FALSE, list |-> l]

ClipValues == {<<0, 1>>, <<0, 255>>}
\* what distinguishes one trained member from another, and the inputs x and labels y
Params == {0, 1}
Xs == {0, 1}
Ys == {0, 1}
Shapes == {<<2>>, <<3>>}
ClassCounts == {1, 2}
\* what set_learning_phase may be handed: the two booleans, and a non-boolean
TrainValues == {"True", "False", "not-a-bool"}
isinstance_bool(train) == train \in {"True", "False"}

\* a member of the list: a Classifier, or some other object
Classifiers ==
    [isClassifier : {TRUE}, clip_values : ClipValues, nb_classes : ClassCounts,
     input_shape : Shapes, param : Params, learning_phase : {"unset"}]
Others ==
    [isClassifier : {FALSE}, clip_values : {<<0, 1>>}, nb_classes : {1},
     input_shape : {<<2>>}, param : {0}, learning_phase : {"unset"}]

SeqsUpTo(S, n) == UNION {[1..k -> S] : k \in 0..n}

NoAdapter == [constructed |-> FALSE]
NoCall == [op |-> "none", args |-> <<>>, exc |-> "None", val |-> <<>>]

(* -------- the member classifiers, which the ensemble only calls -------- *)
\* member.predict(x, logits): one row of nb_classes scores
Member_predict(m, x, logits) ==
    [k \in 1..m.nb_classes |->
        IF logits THEN Rat(m.param + x + k - 3, 1) ELSE Rat((m.param + x + k) % 3, 2)]

\* member.class_gradient(x, label, logits): one entry per class, or one for a given label
Member_class_gradient(m, x, label, logits) ==
    LET g(c) == Rat(m.param + 2 * x + 3 * c + (IF logits THEN 7 ELSE 0), 1)
    IN  IF label = 0 THEN [k \in 1..m.nb_classes |-> g(k)] ELSE <<g(label)>>

\* member.loss_gradient(x, y): same shape as x
Member_loss_gradient(m, x, y) == <<Rat(m.param + x - 2 * y, 1)>>

\* member.set_learning_phase(train)
Member_set_learning_phase(m, train) ==
    IF isinstance_bool(train) THEN [m EXCEPT !.learning_phase = train] ELSE m

(* -------- EnsembleClassifier.__init__ -------- *)
\* Classifier.__init__: the part of the instance the base class sets up
Classifier_init(clip_values, learning) ==
    [constructed |-> TRUE, _clip_values |-> clip_values, _learning |-> learning,
     _learning_phase |-> "unset"]

RECURSIVE CheckClassifiers_noShape(_, _, _)
\* the loop without its comparison of the input shapes
CheckClassifiers_noShape(clip_values, classifiers, i) ==
    IF i > Len(classifiers) THEN "None"
    ELSE IF ~classifiers[i].isClassifier THEN "TypeError"
    ELSE IF clip_values # classifiers[i].clip_values THEN "ValueError"
    ELSE IF classifiers[i].nb_classes # classifiers[1].nb_classes THEN "ValueError"
    ELSE CheckClassifiers_noShape(clip_values, classifiers, i + 1)

RECURSIVE CheckClassifiers_typeLast(_, _, _)
\* the loop with the isinstance test made after the three comparisons
CheckClassifiers_typeLast(clip_values, classifiers, i) ==
    IF i > Len(classifiers) THEN "None"
    ELSE IF clip_values # classifiers[i].clip_values THEN "ValueError"
    ELSE IF classifiers[i].nb_classes # classifiers[1].nb_classes THEN "ValueError"
    ELSE IF classifiers[i].input_shape # classifiers[1].input_shape THEN "ValueError"
    ELSE IF ~classifiers[i].isClassifier THEN "TypeError"
    ELSE CheckClassifiers_typeLast(clip_values, classifiers, i + 1)

RECURSIVE CheckClassifiers(_, _, _)
\* the loop over the members, from member i on: the first exception raised, or "None"
CheckClassifiers(clip_values, classifiers, i) ==
    IF i > Len(classifiers) THEN "None"
    ELSE IF ~classifiers[i].isClassifier THEN "TypeError"
    ELSE IF clip_values # classifiers[i].clip_values THEN "ValueError"
    ELSE IF classifiers[i].nb_classes # classifiers[1].nb_classes THEN "ValueError"
    ELSE IF classifiers[i].input_shape # classifiers[1].input_shape THEN "ValueError"
    ELSE CheckClassifiers(clip_values, classifiers, i + 1)

\* the exception __init__ raises, or "None"
InitRaises(clip_values, classifiers) ==
    IF classifiers.isNone \/ classifiers.list = <<>> THEN "ValueError"
    ELSE CheckClassifiers(clip_values, classifiers.list, 1)

\* self._classifier_weights
InitWeights(classifier_weights, nb_classifiers) ==
    IF classifier_weights.isNone THEN OnesOver(nb_classifiers) ELSE classifier_weights.list

\* the instance __init__ leaves behind when it raises nothing
InitSelf(clip_values, classifiers, classifier_weights, learning) ==
    [constructed |-> TRUE,
     _learning |-> Classifier_init(clip_values, learning)._learning,
     _learning_phase |-> Classifier_init(clip_values, learning)._learning_phase,
     _nb_classifiers |-> Len(classifiers.list),
     _input_shape |-> classifiers.list[1].input_shape,
     _nb_classes |-> classifiers.list[1].nb_classes,
     _clip_values |-> clip_values,
     _classifier_weights |-> InitWeights(classifier_weights, Len(classifiers.list)),
     _classifiers |-> [i \in 1..Len(classifiers.list) |-> i]]

EnsembleClassifier_init(clip_values, classifiers, classifier_weights, learning) ==
    /\ ctor' = [clip_values |-> clip_values, classifiers |-> classifiers,
                classifier_weights |-> classifier_weights]
    /\ objs' = classifiers.list
    /\ ret' = [op |-> "__init__", args |-> <<>>,
               exc |-> InitRaises(clip_values, classifiers), val |-> <<>>]
    /\ self' = IF InitRaises(clip_values, classifiers) = "None"
               THEN InitSelf(clip_values, classifiers, classifier_weights, learning)
               ELSE NoAdapter
    /\ trace' = <<>>

\* the values the constructor's arguments are drawn from
ClassifiersArgs == {None} \cup {Some(l) : l \in SeqsUpTo(Classifiers \cup Others, MaxMembers)}
\* supplied weights: alternating 1/2 and 1, starting with either, of any length
WeightLists ==
    {[i \in 1..k |-> IF i % 2 = b THEN Rat(1, 2) ELSE One] : k \in 0..MaxWeights, b \in {0, 1}}
WeightsArgs == {None} \cup {Some(l) : l \in WeightLists}
Learnings == {"None", "placeholder"}

\* the program constructs one ensemble, with any arguments
Construct ==
    /\ ~self.constructed
    /\ ret.op = "none"
    /\ \E clip_values \in ClipValues, classifiers \in ClassifiersArgs,
          classifier_weights \in WeightsArgs, learning \in Learnings :
            EnsembleClassifier_init(clip_values, classifiers, classifier_weights, learning)

(* -------- the methods -------- *)
Min(a, b) == IF a < b THEN a ELSE b

\* the member behind self._classifiers[i]
Member(s, o, i) == o[s._classifiers[i]]

\* the members a list comprehension over range(self._nb_classifiers) calls before
\* self._classifier_weights[i] raises IndexError, if it does
Reached(s) == Min(s._nb_classifiers, Len(s._classifier_weights))

IndexErrorRaised(s) == Len(s._classifier_weights) < s._nb_classifiers

\* eps = 10e-8
eps == Rat(10, 100000000)

\* preds of predict
predict_preds(s, o, x, logits, raw) ==
    [i \in 1..s._nb_classifiers |->
        Scale(s._classifier_weights[i], Member_predict(Member(s, o, i), x, raw /\ logits))]

\* what predict returns
predict_value(s, o, x, logits, raw) ==
    LET preds == predict_preds(s, o, x, logits, raw)
        z == SumRows(preds, s._nb_classifiers)
    IN  IF raw THEN preds
        ELSE IF logits THEN Log(Clip(z, eps, RSub(One, eps)))
        ELSE z

\* predict, switching the members to the prediction phase before it queries them
predict_resetsPhase(x, logits, raw) ==
    /\ ret' = [op |-> "predict", args |-> <<x, logits, raw>>,
               exc |-> IF IndexErrorRaised(self) THEN "IndexError" ELSE "None",
               val |-> IF IndexErrorRaised(self) THEN <<>>
                       ELSE predict_value(self, objs, x, logits, raw)]
    /\ trace' = [i \in 1..Reached(self) |->
                    [target |-> self._classifiers[i], f |-> "predict", args |-> <<x, raw /\ logits>>]]
    /\ objs' = [j \in 1..Len(objs) |-> Member_set_learning_phase(objs[j], "False")]
    /\ UNCHANGED <<self, ctor>>

predict(x, logits, raw) ==
    /\ ret' = [op |-> "predict", args |-> <<x, logits, raw>>,
               exc |-> IF IndexErrorRaised(self) THEN "IndexError" ELSE "None",
               val |-> IF IndexErrorRaised(self) THEN <<>>
                       ELSE predict_value(self, objs, x, logits, raw)]
    /\ trace' = [i \in 1..Reached(self) |->
                    [target |-> self._classifiers[i], f |-> "predict", args |-> <<x, raw /\ logits>>]]
    /\ UNCHANGED <<self, objs, ctor>>

\* grads of class_gradient; label 0 stands for None, label c for the class c
class_gradient_grads(s, o, x, label, logits) ==
    [i \in 1..s._nb_classifiers |->
        Scale(s._classifier_weights[i], Member_class_gradient(Member(s, o, i), x, label, logits))]

class_gradient_value(s, o, x, label, logits, raw) ==
    IF raw THEN class_gradient_grads(s, o, x, label, logits)
    ELSE SumRows(class_gradient_grads(s, o, x, label, logits), s._nb_classifiers)

class_gradient(x, label, logits, raw) ==
    /\ ret' = [op |-> "class_gradient", args |-> <<x, label, logits, raw>>,
               exc |-> IF IndexErrorRaised(self) THEN "IndexError" ELSE "None",
               val |-> IF IndexErrorRaised(self) THEN <<>>
                       ELSE class_gradient_value(self, objs, x, label, logits, raw)]
    /\ trace' = [i \in 1..Reached(self) |->
                    [target |-> self._classifiers[i], f |-> "class_gradient",
                     args |-> <<x, label, logits>>]]
    /\ UNCHANGED <<self, objs, ctor>>

loss_gradient_grads(s, o, x, y) ==
    [i \in 1..s._nb_classifiers |->
        Scale(s._classifier_weights[i], Member_loss_gradient(Member(s, o, i), x, y))]

loss_gradient_value(s, o, x, y, raw) ==
    IF raw THEN loss_gradient_grads(s, o, x, y)
    ELSE SumRows(loss_gradient_grads(s, o, x, y), s._nb_classifiers)

loss_gradient(x, y, raw) ==
    /\ ret' = [op |-> "loss_gradient", args |-> <<x, y, raw>>,
               exc |-> IF IndexErrorRaised(self) THEN "IndexError" ELSE "None",
               val |-> IF IndexErrorRaised(self) THEN <<>>
                       ELSE loss_gradient_value(self, objs, x, y, raw)]
    /\ trace' = [i \in 1..Reached(self) |->
                    [target |-> self._classifiers[i], f |-> "loss_gradient", args |-> <<x, y>>]]
    /\ UNCHANGED <<self, objs, ctor>>

\* the condition without its isinstance test
set_learning_phase_guard_anyTrain(s, train) == s._learning # "None"

\* the condition under which set_learning_phase does anything
set_learning_phase_guard(s, train) == s._learning # "None" /\ isinstance_bool(train)

\* target 0 is self: the write of self._learning_phase
set_learning_phase(train) ==
    /\ ret' = [op |-> "set_learning_phase", args |-> <<train>>, exc |-> "None", val |-> <<>>]
    /\ IF set_learning_phase_guard(self, train)
       THEN /\ objs' = [j \in 1..Len(objs) |->
                           IF \E i \in 1..self._nb_classifiers : self._classifiers[i] = j
                           THEN Member_set_learning_phase(objs[j], train) ELSE objs[j]]
            /\ self' = [self EXCEPT !._learning_phase = train]
            /\ trace' = [i \in 1..self._nb_classifiers |->
                            [target |-> self._classifiers[i], f |-> "set_learning_phase",
                             args |-> <<train>>]]
                        \o <<[target |-> 0, f |-> "_learning_phase", args |-> <<train>>]>>
       ELSE /\ UNCHANGED <<self, objs>>
            /\ trace' = <<>>
    /\ UNCHANGED ctor

\* fit as a stub that returns None
fit_returnsNone(x, y) ==
    /\ ret' = [op |-> "fit", args |-> <<x, y>>, exc |-> "None", val |-> <<>>]
    /\ trace' = <<>>
    /\ UNCHANGED <<self, objs, ctor>>

fit(x, y) ==
    /\ ret' = [op |-> "fit", args |-> <<x, y>>, exc |-> "NotImplementedError", val |-> <<>>]
    /\ trace' = <<>>
    /\ UNCHANGED <<self, objs, ctor>>

fit_generator(generator) ==
    /\ ret' = [op |-> "fit_generator", args |-> <<generator>>, exc |-> "NotImplementedError",
               val |-> <<>>]
    /\ trace' = <<>>
    /\ UNCHANGED <<self, objs, ctor>>

layer_names ==
    /\ ret' = [op |-> "layer_names", args |-> <<>>, exc |-> "NotImplementedError", val |-> <<>>]
    /\ trace' = <<>>
    /\ UNCHANGED <<self, objs, ctor>>

get_activations(x, layer) ==
    /\ ret' = [op |-> "get_activations", args |-> <<x, layer>>, exc |-> "NotImplementedError",
               val |-> <<>>]
    /\ trace' = <<>>
    /\ UNCHANGED <<self, objs, ctor>>

save(filename) ==
    /\ ret' = [op |-> "save", args |-> <<filename>>, exc |-> "NotImplementedError", val |-> <<>>]
    /\ trace' = <<>>
    /\ UNCHANGED <<self, objs, ctor>>

(* -------- the program: construct an ensemble, then call its methods -------- *)
Predict ==
    /\ self.constructed
    /\ \E x \in Xs, logits \in BOOLEAN, raw \in BOOLEAN : predict(x, logits, raw)

ClassGradient ==
    /\ self.constructed
    /\ \E x \in Xs, label \in 0..self._nb_classes, logits \in BOOLEAN, raw \in BOOLEAN :
          class_gradient(x, label, logits, raw)

LossGradient ==
    /\ self.constructed
    /\ \E x \in Xs, y \in Ys, raw \in BOOLEAN : loss_gradient(x, y, raw)

SetLearningPhase ==
    /\ self.constructed
    /\ \E train \in TrainValues : set_learning_phase(train)

Fit == self.constructed /\ \E x \in Xs, y \in Ys : fit(x, y)

FitGenerator == self.constructed /\ \E generator \in Xs : fit_generator(generator)

LayerNames == self.constructed /\ layer_names

GetActivations == self.constructed /\ \E x \in Xs, layer \in {0, 1} : get_activations(x, layer)

Save == self.constructed /\ \E filename \in {"a", "b"} : save(filename)

\* before the constructor is called
InitNew ==
    /\ self = NoAdapter
    /\ objs = <<>>
    /\ ctor = [clip_values |-> <<0, 1>>, classifiers |-> None, classifier_weights |-> None]
    /\ ret = NoCall
    /\ trace = <<>>

NextNew == Construct

\* the constructor, called with any arguments
SpecNew == InitNew /\ [][NextNew]_vars

\* the member lists of the ensembles whose methods are called: Classifiers with the
\* clip values (0, 1) and the input shape (2,), of any number of classes
EnsembleMembers ==
    {m \in Classifiers : m.clip_values = <<0, 1>> /\ m.input_shape = <<2>>}
EnsembleArgs == {Some(l) : l \in SeqsUpTo(EnsembleMembers, MaxMembers)}

\* the state after a construction that raised nothing
Init ==
    \E classifiers \in EnsembleArgs, classifier_weights \in WeightsArgs, learning \in Learnings :
        /\ InitRaises(<<0, 1>>, classifiers) = "None"
        /\ self = InitSelf(<<0, 1>>, classifiers, classifier_weights, learning)
        /\ objs = classifiers.list
        /\ ctor = [clip_values |-> <<0, 1>>, classifiers |-> classifiers,
                   classifier_weights |-> classifier_weights]
        /\ ret = [op |-> "__init__", args |-> <<>>, exc |-> "None", val |-> <<>>]
        /\ trace = <<>>

Next ==
    \/ Predict
    \/ ClassGradient
    \/ LossGradient
    \/ SetLearningPhase
    \/ Fit
    \/ FitGenerator
    \/ LayerNames
    \/ GetActivations
    \/ Save

\* the methods, called in any order on a constructed ensemble
Spec == Init /\ [][Next]_vars

(* ======================= the constructor's claims ======================= *)
\* member i passes the three comparisons of the loop
Agrees(clip_values, l, i) ==
    /\ l[i].clip_values = clip_values
    /\ l[i].nb_classes = l[1].nb_classes
    /\ l[i].input_shape = l[1].input_shape

AllClassifiers(l) == \A i \in 1..Len(l) : l[i].isClassifier

\* the member list is one the constructor is to accept
ValidMembers(clip_values, classifiers) ==
    /\ ~classifiers.isNone
    /\ classifiers.list # <<>>
    /\ \A i \in 1..Len(classifiers.list) : Agrees(clip_values, classifiers.list, i)

\* C1: the constructor returns an ensemble only for a non-empty member list whose
\* members all have the constructor's clip_values and the first member's nb_classes
\* and input_shape; for a list of Classifiers that is None, empty or breaks one of
\* these equalities it raises ValueError and no ensemble exists.
C1_ConstructionValidates ==
    ret.op = "__init__" =>
        /\ self.constructed =>
              /\ ret.exc = "None"
              /\ AllClassifiers(ctor.classifiers.list)
              /\ ValidMembers(ctor.clip_values, ctor.classifiers)
        /\ (AllClassifiers(ctor.classifiers.list)
              /\ ~ValidMembers(ctor.clip_values, ctor.classifiers)) =>
              /\ ret.exc = "ValueError"
              /\ ~self.constructed

\* two Classifiers that differ in nothing but the input shape: ValueError
C1_Witness ==
    /\ ret.op = "__init__"
    /\ ret.exc = "ValueError"
    /\ ~self.constructed
    /\ Len(ctor.classifiers.list) = 2
    /\ AllClassifiers(ctor.classifiers.list)
    /\ \A i \in 1..2 : ctor.classifiers.list[i].clip_values = ctor.clip_values
    /\ ctor.classifiers.list[2].nb_classes = ctor.classifiers.list[1].nb_classes
    /\ ctor.classifiers.list[2].input_shape # ctor.classifiers.list[1].input_shape

HasNonClassifier(l) == \E i \in 1..Len(l) : ~l[i].isClassifier

\* the position of the first member that is no Classifier
FirstNonClassifier(l) ==
    CHOOSE i \in 1..Len(l) : ~l[i].isClassifier /\ \A j \in 1..(i - 1) : l[j].isClassifier

\* C2 as stated: a member list holding a member that is no Classifier makes the
\* constructor raise TypeError, wherever that member is and whatever the others are.
C2_AlwaysTypeError ==
    (ret.op = "__init__" /\ HasNonClassifier(ctor.classifiers.list)) => ret.exc = "TypeError"

\* C2, amended: a member list holding a member that is no Classifier makes the
\* constructor fail and no ensemble exists; it raises TypeError when every member
\* before the first non-Classifier passes the three comparisons, and the ValueError
\* of the first member that fails one of them otherwise.
C2_TypeErrorUnlessEarlierMismatch ==
    (ret.op = "__init__" /\ HasNonClassifier(ctor.classifiers.list)) =>
        /\ ~self.constructed
        /\ ret.exc =
              IF \A j \in 1..(FirstNonClassifier(ctor.classifiers.list) - 1) :
                    Agrees(ctor.clip_values, ctor.classifiers.list, j)
              THEN "TypeError" ELSE "ValueError"

\* a Classifier that passes the comparisons, then an object that is no Classifier
C2_Witness ==
    /\ ret.op = "__init__"
    /\ ret.exc = "TypeError"
    /\ Len(ctor.classifiers.list) = 2
    /\ ctor.classifiers.list[1].isClassifier
    /\ Agrees(ctor.clip_values, ctor.classifiers.list, 1)
    /\ ~ctor.classifiers.list[2].isClassifier

\* C4 as stated: a constructed ensemble has one weight per member, whatever the
\* length of the weights supplied.
C4_OneWeightPerMember ==
    self.constructed => Len(self._classifier_weights) = Len(self._classifiers)

(* ======================= the methods' claims ======================= *)
\* weights[i] times what member i returns, for each of the three fanned-out calls
WeightedPredict(i, x, logits) ==
    Scale(self._classifier_weights[i], Member_predict(objs[self._classifiers[i]], x, logits))
WeightedClassGradient(i, x, label, logits) ==
    Scale(self._classifier_weights[i],
          Member_class_gradient(objs[self._classifiers[i]], x, label, logits))
WeightedLossGradient(i, x, y) ==
    Scale(self._classifier_weights[i], Member_loss_gradient(objs[self._classifiers[i]], x, y))

\* C3 as stated: on every constructed ensemble, predict (logits False), class_gradient
\* and loss_gradient called with raw=True return a stack with one element per member,
\* element i being weights[i] times member i's result, and the sum of the stack over
\* the members is what the same call returns with raw=False.
C3_RawStackSums ==
    /\ (ret.op = "predict" /\ ~ret.args[2] /\ ret.args[3]) =>
          /\ ret.exc = "None"
          /\ Len(ret.val) = self._nb_classifiers
          /\ \A i \in 1..self._nb_classifiers : ret.val[i] = WeightedPredict(i, ret.args[1], FALSE)
          /\ SumRows(ret.val, self._nb_classifiers)
                = predict_value(self, objs, ret.args[1], FALSE, FALSE)
    /\ (ret.op = "class_gradient" /\ ret.args[4]) =>
          /\ ret.exc = "None"
          /\ Len(ret.val) = self._nb_classifiers
          /\ \A i \in 1..self._nb_classifiers :
                ret.val[i] = WeightedClassGradient(i, ret.args[1], ret.args[2], ret.args[3])
          /\ SumRows(ret.val, self._nb_classifiers)
                = class_gradient_value(self, objs, ret.args[1], ret.args[2], ret.args[3], FALSE)
    /\ (ret.op = "loss_gradient" /\ ret.args[3]) =>
          /\ ret.exc = "None"
          /\ Len(ret.val) = self._nb_classifiers
          /\ \A i \in 1..self._nb_classifiers :
                ret.val[i] = WeightedLossGradient(i, ret.args[1], ret.args[2])
          /\ SumRows(ret.val, self._nb_classifiers)
                = loss_gradient_value(self, objs, ret.args[1], ret.args[2], FALSE)

\* the statement of C3 on the ensembles that have a weight for every member
C3_GivenAWeightPerMember == ~IndexErrorRaised(self) => C3_RawStackSums

RECURSIVE SumOfPredictions(_, _, _)
\* the sum of the probability predictions of the members 1..n, class k
SumOfPredictions(n, x, k) ==
    IF n = 0 THEN Zero
    ELSE RAdd(SumOfPredictions(n - 1, x, k),
              Member_predict(objs[self._classifiers[n]], x, FALSE)[k])

\* C5: an ensemble constructed with classifier_weights=None over N members has the
\* weight 1/N for every member, and its predict(x), raw and logits False, returns the
\* sum of the N members' probability predictions divided by N.
C5_DefaultWeightsAverage ==
    ctor.classifier_weights.isNone =>
        /\ Len(self._classifier_weights) = self._nb_classifiers
        /\ \A i \in 1..self._nb_classifiers :
              self._classifier_weights[i] = <<1, self._nb_classifiers>>
        /\ (ret.op = "predict" /\ ~ret.args[2] /\ ~ret.args[3]) =>
              /\ ret.exc = "None"
              /\ ret.val = [k \in 1..self._nb_classes |->
                              RDiv(SumOfPredictions(self._nb_classifiers, ret.args[1], k),
                                   <<self._nb_classifiers, 1>>)]

\* predict(x) on two members of different predictions and defaulted weights
C5_Witness ==
    /\ ctor.classifier_weights.isNone
    /\ self._nb_classifiers = 2
    /\ ret.op = "predict" /\ ~ret.args[2] /\ ~ret.args[3]
    /\ ret.exc = "None"
    /\ Member_predict(objs[1], ret.args[1], FALSE) # Member_predict(objs[2], ret.args[1], FALSE)
    /\ ret.val[1] = <<3, 4>>

Unsupported == {"fit", "fit_generator", "layer_names", "get_activations", "save"}

\* C6: every call of fit, fit_generator, save and get_activations and every read of
\* layer_names raises NotImplementedError, calls no member and leaves the ensemble
\* and its members as they were.
C6_UnsupportedRaise ==
    [][ret'.op \in Unsupported =>
          /\ ret'.exc = "NotImplementedError"
          /\ trace' = <<>>
          /\ self' = self
          /\ objs' = objs]_vars

\* fit was called on an ensemble whose members are in the training phase
C6_Witness ==
    /\ ret.op = "fit"
    /\ ret.exc = "NotImplementedError"
    /\ self._learning_phase = "True"
    /\ \A i \in 1..Len(objs) : objs[i].learning_phase = "True"

\* the calls and the write set_learning_phase(train) makes when it propagates
PropagationTrace(train) ==
    [i \in 1..(self._nb_classifiers + 1) |->
        IF i <= self._nb_classifiers
        THEN [target |-> self._classifiers[i], f |-> "set_learning_phase", args |-> <<train>>]
        ELSE [target |-> 0, f |-> "_learning_phase", args |-> <<train>>]]

\* C7 as stated: on every constructed ensemble set_learning_phase(train) with a boolean
\* train calls set_learning_phase(train) on every member, then records train, and
\* afterwards every member's flag and the ensemble's recorded flag equal train.
C7_PhasePropagates ==
    (ret.op = "set_learning_phase" /\ isinstance_bool(ret.args[1])) =>
        /\ trace = PropagationTrace(ret.args[1])
        /\ \A i \in 1..self._nb_classifiers :
              objs[self._classifiers[i]].learning_phase = ret.args[1]
        /\ self._learning_phase = ret.args[1]

\* the statement of C7 on the ensembles whose _learning is not None
C7_GivenLearning == self._learning # "None" => C7_PhasePropagates

\* C8: set_learning_phase(train) with a train that is no boolean raises nothing,
\* calls no member and changes neither a member's flag nor the recorded flag.
C8_NonBooleanIgnored ==
    [][(ret'.op = "set_learning_phase" /\ ~isinstance_bool(ret'.args[1])) =>
          /\ ret'.exc = "None"
          /\ trace' = <<>>
          /\ objs' = objs
          /\ self' = self]_vars

\* a non-boolean was handed to an ensemble that has a _learning and is in training
C8_Witness ==
    /\ ret.op = "set_learning_phase"
    /\ ret.args[1] = "not-a-bool"
    /\ self._learning # "None"
    /\ self._learning_phase = "True"
    /\ \A i \in 1..Len(objs) : objs[i].learning_phase = "True"

\* C9: predict, class_gradient and loss_gradient leave the ensemble's members,
\* weights, clip_values, input_shape, nb_classes and recorded phase and every member's
\* flag as they were; only set_learning_phase changes a member, and of a member and
\* of the ensemble it changes nothing but the learning-phase flag.
C9_OnlyThePhaseChanges ==
    [][/\ ret'.op \in {"predict", "class_gradient", "loss_gradient"} =>
             (self' = self /\ objs' = objs)
       /\ objs' # objs => ret'.op = "set_learning_phase"
       /\ Len(objs') = Len(objs)
       /\ \A j \in 1..Len(objs) : [objs'[j] EXCEPT !.learning_phase = "unset"]
                                    = [objs[j] EXCEPT !.learning_phase = "unset"]
       /\ [self' EXCEPT !._learning_phase = "unset"]
             = [self EXCEPT !._learning_phase = "unset"]]_vars

\* predict was called on an ensemble of two members that are in the training phase
C9_Witness ==
    /\ ret.op = "predict"
    /\ ret.exc = "None"
    /\ Len(objs) = 2
    /\ self._learning_phase = "True"
    /\ \A i \in 1..Len(objs) : objs[i].learning_phase = "True"

\* C10 as stated: every predict call queries each member exactly once, with logits
\* equal to (raw and logits), and with raw=False and logits=True it returns
\* log(clip(sum, eps, 1 - eps)), eps = 1e-7, of the sum of the weighted probability
\* predictions.
C10_PredictQueries ==
    ret.op = "predict" =>
        /\ Len(trace) = self._nb_classifiers
        /\ \A i \in 1..self._nb_classifiers :
              trace[i] = [target |-> self._classifiers[i], f |-> "predict",
                          args |-> <<ret.args[1], ret.args[3] /\ ret.args[2]>>]
        /\ (~ret.args[3] /\ ret.args[2]) =>
              ret.val = Log(Clip(SumRows([i \in 1..self._nb_classifiers |->
                                              WeightedPredict(i, ret.args[1], FALSE)],
                                         self._nb_classifiers),
                                 <<1, 10000000>>, <<9999999, 10000000>>))

\* the statement of C10 on the ensembles that have a weight for every member
C10_GivenAWeightPerMember == ~IndexErrorRaised(self) => C10_PredictQueries

====
